---- MODULE Spec2Model ----
(***************************************************************************)
(* Model of the DPOD correspondence and pose-recovery core.                *)
(*                                                                         *)
(*  - Spec      : ModelsHandler.pnp_ransac_multiple_instances              *)
(*                (src/DPOD/models_handler.py), the sequential             *)
(*                multi-instance loop around the PnP+RANSAC solver.        *)
(*  - CodecSpec : the colour codec and the inverse lookup table of both    *)
(*                handlers (src/DPOD/models_handler.py and                 *)
(*                src/DPOD/datasets/linemod/models_handler.py).            *)
(*                                                                         *)
(* Abstractions of the engine model.  The image is a row of NumPixels      *)
(* pixels.  `clasification` holds, per pixel, the class the network        *)
(* predicts (the arg-max of the untouched score tensor); the soft-max of   *)
(* line 261 is represented by the one-hot vector of that class, which      *)
(* keeps every arg-max.  The comparison of line 274 is read over pixels:   *)
(* it selects the pixels whose input class is the chosen one.              *)
(* cv2.solvePnPRansac is an oracle: it either converges with a non-empty   *)
(* set of inliers among the points it was given, or does not converge and  *)
(* hands back no inlier array.  Poses are opaque tokens: array shapes and   *)
(* dtypes, the stacking of lines 235-239 and the rotation conversion of    *)
(* line 231 are not modelled, the model follows the data flow of the loop. *)
(***************************************************************************)
EXTENDS Integers, Sequences, FiniteSets, TLC

\* ------------------------------------------------------------------ bounds
NumPixels == 3
NumClasses == 2
NumPoses == 2
MaxIter == 4

NumVertices == 4
MaxHeight == 2
HalfTurn == 2
MaxRadius == 2

NumFaces == 2
MaxDepth == 2
RasterSize == 1

Pixels == 1..NumPixels
\* clasification.shape[0]-1: the last channel is the background
background_id == NumClasses
Channels == 0..background_id
Classes == 0..(NumClasses - 1)
Poses == 1..NumPoses

VARIABLES
    clasification,        \* input: pixel -> predicted class (background_id = none)
    probabilities,        \* pixel -> channel -> score, mutated by the loop
    most_frequent_class,  \* [tag, id]: the value of line 270 in this round
    output,               \* list of (model_id, pose)
    pc,                   \* "loop" | "solve" | "raised"; lines 277 and 285 (break,
                          \* return output) are never reached, see SolveNotConverged
    converged,            \* retval of the last cv2.solvePnPRansac: "unset" | "true" | "false"
    raised_by,            \* which call raised, "" while none did
    iterations,           \* history: loop bodies entered
    solver_calls,         \* history: calls of pnp_ransac_single_instance2
    solver_input,         \* history: the pixels given to the solver, per call
    inlier_log            \* history: the inlier pixels of each output entry

VARIABLES
    handler,              \* "dpod" | "linemod": which ModelsHandler class
    vertices,             \* the model's vertex list
    colors,               \* the integer colour code of every vertex, once computed
    table,                \* the lookup table at the sampled codes, once built
    codec_pc,             \* "idle" | "loaded" | "colored" | "built" | "queried" | "raised"
    codec_error,          \* the error raised, "" while none was
    query,                \* index of the vertex whose code is looked up, 0 = none
    looked_up             \* the vertex index the table returned, 0 = none

VARIABLES
    render_pc,            \* "idle" | "posed" | "transformed" | "sorted" | "done"
    world_z,              \* face -> the z of its three vertices after rotation and translation
    face_cover,           \* face -> the raster pixels its projected triangle fills
    mid_depth,            \* face -> three times the z of its mid-point in reality
    face_ordering,        \* the result of np.argsort
    triangles,            \* the face list, reordered in place
    face_colors,          \* the colour list, reordered in place
    raster,               \* the image painted onto, 0 = untouched
    painted               \* number of faces painted so far

VARIABLES
    faces,                \* the model's faces: triples of vertex indices
    faces_mid_points,     \* the mid-point of every face, once computed
    face_to_color,        \* the integer colour code the renderer paints each face with
    face_pc               \* "idle" | "loaded" | "midpoints" | "colored"

face_vars == <<faces, faces_mid_points, face_to_color, face_pc>>

render_vars == <<render_pc, world_z, face_cover, mid_depth, face_ordering, triangles,
                 face_colors, raster, painted>>

codec_vars == <<handler, vertices, colors, table, codec_pc, codec_error, query, looked_up>>

engine_vars == <<clasification, probabilities, most_frequent_class, output, pc,
                 converged, raised_by, iterations, solver_calls, solver_input, inlier_log>>

vars == <<engine_vars, codec_vars, render_vars, face_vars>>

\* ------------------------------------------------------- pure helpers
\* softmax over the channels, as an order-preserving one-hot vector
softmax(label) == [c \in Channels |-> IF c = label THEN 1 ELSE 0]

RECURSIVE ArgMaxFrom(_, _, _)
\* np.argmax: scan the channels upward, keep the first maximal one
ArgMaxFrom(v, c, best) ==
    IF c > background_id THEN best
    ELSE ArgMaxFrom(v, c + 1, IF v[c] > v[best] THEN c ELSE best)

argmax(v) == ArgMaxFrom(v, 1, 0)

most_probable_class_pixelwise(prob) == [p \in Pixels |-> argmax(prob[p])]

\* the values handed to scipy.stats.mode: the non-background entries
ModeInput(mpc) == {p \in Pixels : mpc[p] # background_id}

CountOf(mpc, k) == Cardinality({p \in ModeInput(mpc) : mpc[p] = k})

RECURSIVE ModeFrom(_, _, _)
\* scipy.stats.mode: unique values in increasing order with their counts,
\* the first value of maximal count wins
ModeFrom(mpc, k, best) ==
    IF k > background_id THEN best
    ELSE ModeFrom(mpc, k + 1,
                  IF CountOf(mpc, k) > CountOf(mpc, best) THEN k ELSE best)

RECURSIVE ModeLastFrom(_, _, _)
\* a mode that lets the last value of maximal count win
ModeLastFrom(mpc, k, best) ==
    IF k > background_id THEN best
    ELSE ModeLastFrom(mpc, k + 1,
                      IF CountOf(mpc, k) >= CountOf(mpc, best) THEN k ELSE best)

mode_last(mpc) == ModeLastFrom(mpc, 1, 0)

mode(mpc) == ModeFrom(mpc, 1, 0)

\* clasification == most_frequent_class (line 274)
Mask(cls) == {p \in Pixels : clasification[p] = cls}

Unset == [tag |-> "unset", id |-> 0]
NaN == [tag |-> "nan", id |-> 0]
Class(k) == [tag |-> "class", id |-> k]

\* ------------------------------------------------------------- engine
EngineInit ==
    /\ clasification \in [Pixels -> Channels]
    /\ probabilities = [p \in Pixels |-> softmax(clasification[p])]
    /\ most_frequent_class = Unset
    /\ output = <<>>
    /\ pc = "loop"
    /\ converged = "unset"
    /\ raised_by = ""
    /\ iterations = 0
    /\ solver_calls = 0
    /\ solver_input = <<>>
    /\ inlier_log = <<>>

\* lines 265-272, some pixel is not background: the mode is a class
SelectClass ==
    /\ pc = "loop"
    /\ iterations < MaxIter
    /\ LET mpc == most_probable_class_pixelwise(probabilities) IN
        /\ ModeInput(mpc) # {}
        /\ most_frequent_class' = Class(mode(mpc))
    /\ iterations' = iterations + 1
    /\ pc' = "solve"
    /\ UNCHANGED <<codec_vars, render_vars, face_vars, clasification, probabilities, output, converged, raised_by,
                   solver_calls, solver_input, inlier_log>>

\* lines 265-270, every pixel is background: mode of an empty array, where
\* .mode.item() raises on an empty mode array
SelectClassEmptyRaises ==
    /\ pc = "loop"
    /\ iterations < MaxIter
    /\ ModeInput(most_probable_class_pixelwise(probabilities)) = {}
    /\ iterations' = iterations + 1
    /\ pc' = "raised"
    /\ raised_by' = "mode.item"
    /\ UNCHANGED <<codec_vars, render_vars, face_vars, clasification, probabilities, most_frequent_class, output,
                   converged, solver_calls, solver_input, inlier_log>>

\* lines 265-272, every pixel is background: mode of an empty array, where
\* the mode of nothing is nan
SelectClassEmptyNaN ==
    /\ pc = "loop"
    /\ iterations < MaxIter
    /\ ModeInput(most_probable_class_pixelwise(probabilities)) = {}
    /\ most_frequent_class' = NaN
    /\ iterations' = iterations + 1
    /\ pc' = "solve"
    /\ UNCHANGED <<codec_vars, render_vars, face_vars, clasification, probabilities, output, converged, raised_by,
                   solver_calls, solver_input, inlier_log>>

\* the pixels line 274 selects for the class of this round
CurrentMask ==
    IF most_frequent_class.tag = "class" THEN Mask(most_frequent_class.id) ELSE {}

\* probabilities[:, inliers] = 0; probabilities[-1, inliers] = 1
TreatAsBackground(prob, inliers) ==
    [p \in Pixels |->
        IF p \in inliers THEN [c \in Channels |-> IF c = background_id THEN 1 ELSE 0]
        ELSE prob[p]]

\* lines 273-283, the solver converged on the inliers `inl` with pose `pose`
SolveConverged(inl, pose) ==
    /\ pc = "solve"
    /\ CurrentMask # {}
    /\ inl # {}
    /\ inl \subseteq CurrentMask
    /\ probabilities' = TreatAsBackground(probabilities, inl)
    /\ output' = Append(output, <<most_frequent_class.id, pose>>)
    /\ inlier_log' = Append(inlier_log, inl)
    /\ solver_calls' = solver_calls + 1
    /\ solver_input' = Append(solver_input, CurrentMask)
    /\ converged' = "true"
    /\ pc' = "loop"
    /\ UNCHANGED <<codec_vars, render_vars, face_vars, clasification, most_frequent_class, raised_by, iterations>>

\* lines 223-231, the solver did not converge: cv2 hands back no inlier
\* array and inliers.flatten() raises before `converged` is returned
SolveNotConverged ==
    /\ pc = "solve"
    /\ CurrentMask # {}
    /\ solver_calls' = solver_calls + 1
    /\ solver_input' = Append(solver_input, CurrentMask)
    /\ converged' = "false"
    /\ pc' = "raised"
    /\ raised_by' = "inliers.flatten"
    /\ UNCHANGED <<codec_vars, render_vars, face_vars, clasification, probabilities, most_frequent_class, output,
                   iterations, inlier_log>>

\* lines 273-274 with no selected pixel (the class is nan): the solver is
\* called on an empty point set, which cv2 rejects
SolveNoPoints ==
    /\ pc = "solve"
    /\ CurrentMask = {}
    /\ solver_calls' = solver_calls + 1
    /\ solver_input' = Append(solver_input, CurrentMask)
    /\ pc' = "raised"
    /\ raised_by' = "cv2.solvePnPRansac"
    /\ UNCHANGED <<codec_vars, render_vars, face_vars, clasification, probabilities, most_frequent_class, output,
                   converged, iterations, inlier_log>>

\* the codec is not used while the engine runs
CodecIdle ==
    /\ handler = "dpod"
    /\ vertices = <<>>
    /\ colors = <<>>
    /\ table = <<>>
    /\ codec_pc = "idle"
    /\ codec_error = ""
    /\ query = 0
    /\ looked_up = 0

\* the renderer is not used while the engine or the codec runs
\* no face colours are computed while another part runs
FaceIdle ==
    /\ faces = <<>>
    /\ faces_mid_points = <<>>
    /\ face_to_color = <<>>
    /\ face_pc = "idle"

RenderIdle ==
    /\ render_pc = "idle"
    /\ world_z = <<>>
    /\ face_cover = <<>>
    /\ mid_depth = <<>>
    /\ face_ordering = <<>>
    /\ triangles = <<>>
    /\ face_colors = <<>>
    /\ raster = <<>>
    /\ painted = 0

Init == EngineInit /\ CodecIdle /\ RenderIdle /\ FaceIdle

Next ==
    \/ SelectClass
    \/ SelectClassEmptyRaises
    \/ SelectClassEmptyNaN
    \/ \E inl \in SUBSET Pixels, pose \in Poses : SolveConverged(inl, pose)
    \/ SolveNotConverged
    \/ SolveNoPoints

Spec == Init /\ [][Next]_vars

\* ------------------------------------------------- ownership (derived)
\* pixels that are not background in the input
InitiallyUnassigned == {p \in Pixels : clasification[p] # background_id}

\* pixels returned as inliers of some recorded instance
Owned == UNION {inlier_log[i] : i \in DOMAIN inlier_log}

Unassigned == InitiallyUnassigned \ Owned

\* unassigned pixels whose predicted class is c
UnassignedOfClass(c) == {p \in Unassigned : clasification[p] = c}

\* ------------------------------------------------------ engine claims
\* C1: the engine halts within N loop iterations, N being the number of
\* pixels that are unassigned in the input; as stated by the claim.  A loop
\* iteration that runs to its end is a round that appended to output, so
\* the iterations completed so far are the entries of output.
C1_HaltsWithinN == Len(output) <= Cardinality(InitiallyUnassigned)

\* C2: no pixel is an inlier of two entries of the result list; as stated
\* by the claim.
C2_NoDoubleAssignment ==
    \A i, j \in DOMAIN inlier_log :
        i < j => inlier_log[i] \cap inlier_log[j] = {}

\* C3: when the solver does not converge nothing is raised; as stated by
\* the claim.
C3_NonConvergenceNotRaised == converged = "false" => pc # "raised"

\* C4: on an all-background input the engine performs zero iterations and
\* calls neither the mode nor the solver; as stated by the claim.
C4_BackgroundOnlyZeroIterations ==
    InitiallyUnassigned = {} => (iterations = 0 /\ solver_calls = 0 /\ pc # "raised")

\* C5: the pixels handed to the solver are exactly the unassigned pixels
\* whose most-likely class is the class chosen in this round; as stated by
\* the claim.
C5_SolverInputIsUnassignedOfClass ==
    (pc = "solve" /\ most_frequent_class.tag = "class") =>
        CurrentMask = {p \in Unassigned :
                          argmax(probabilities[p]) = most_frequent_class.id}

Pool == ModeInput(most_probable_class_pixelwise(probabilities))

\* C12: a successful round appends one entry, all its inliers leave the pool
\* of unassigned pixels, the pool loses at least one pixel, and no step ever
\* puts a pixel back into the pool; as stated by the claim.
C12_SuccessfulRoundShrinksPool ==
    [][/\ Pool' \subseteq Pool
       /\ Len(output') > Len(output) =>
            /\ Len(output') = Len(output) + 1
            /\ inlier_log'[Len(inlier_log')] \cap Pool' = {}
            /\ Pool' # Pool]_vars

\* ==================================================================
\* Colour codec and inverse lookup table
\*
\* A vertex is given in cylinder coordinates around the vertical axis:
\* h is points[:, 1], a is arctan2(points[:, 0], points[:, 2]) in units of
\* pi / HalfTurn (so a = HalfTurn is the angle pi), r is the distance from
\* the axis.  Divisions are exact, a cast to int truncates.
\* scipy's griddata is modelled at the sampled codes only: it rejects
\* samples that span no triangle, and otherwise a grid cell that coincides
\* with a sample holds the vertex of one of the samples lying there.
\* ==================================================================
color_resolution == 255
DpodResolution == 256

Points == [h : 0..MaxHeight, a : (1 - HalfTurn)..HalfTurn, r : 1..MaxRadius]

VertexIds == 1..NumVertices

\* position of a point in a fixed enumeration of Points
PointKey(pt) ==
    (pt.h * (2 * HalfTurn) + (pt.a + HalfTurn - 1)) * MaxRadius + (pt.r - 1)

RECURSIVE VertexLists(_)
\* the lists of n distinct points, in the order of PointKey
VertexLists(n) ==
    IF n = 0 THEN {<<>>}
    ELSE UNION {{Append(vs, pt) :
                    pt \in {q \in Points :
                               vs = <<>> \/ PointKey(q) > PointKey(vs[Len(vs)])}} :
                vs \in VertexLists(n - 1)}

MinOf(S) == CHOOSE x \in S : \A y \in S : x <= y
MaxOf(S) == CHOOSE x \in S : \A y \in S : x >= y

HeightsOf(vs) == {vs[i].h : i \in DOMAIN vs}
AnglesOf(vs) == {vs[i].a : i \in DOMAIN vs}
HeightExtent(vs) == MaxOf(HeightsOf(vs)) - MinOf(HeightsOf(vs))
AngleExtent(vs) == MaxOf(AnglesOf(vs)) - MinOf(AnglesOf(vs))

\* side of the square lookup grid: np.mgrid[0:256] resp. [0:color_resolution]
Resolution(hd) == IF hd = "dpod" THEN DpodResolution ELSE color_resolution

\* what casting a nan to int can give: the most negative integer, or zero
MostNegative == -2147483647
NanCast == {MostNegative, 0}

\* 256 * (x - x.min()) / (x.max() - x.min()) % 256, cast to int; nan when
\* the extent is zero
normalize_to_256(x, xs, nan) ==
    IF MaxOf(xs) = MinOf(xs) THEN nan
    ELSE ((DpodResolution * (x - MinOf(xs))) \div (MaxOf(xs) - MinOf(xs))) % DpodResolution

\* DPOD handler: the (height, angle) code of every point, both channels
\* normalised over the points of this call
color_points(vs, nan) ==
    [i \in DOMAIN vs |->
        <<normalize_to_256(vs[i].h, HeightsOf(vs), nan),
          normalize_to_256(vs[i].a, AnglesOf(vs), nan)>>]

\* linemod handler: height and angle scaled to [0, 1], as fractions
color_uv(vs) ==
    [i \in DOMAIN vs |->
        [height |-> [num |-> vs[i].h - MinOf(HeightsOf(vs)), den |-> HeightExtent(vs)],
         angle |-> [num |-> vs[i].a + HalfTurn, den |-> 2 * HalfTurn]]]

\* (fraction * color_resolution).astype(int)
ScaleToInt(f, nan) ==
    IF f.den = 0 THEN nan ELSE (f.num * color_resolution) \div f.den

\* the integer codes get_color_to_3dpoints_arrays interpolates over
VertexColors(hd, vs, nan) ==
    IF hd = "dpod" THEN color_points(vs, nan)
    ELSE [i \in DOMAIN vs |->
            <<ScaleToInt(color_uv(vs)[i].height, nan),
              ScaleToInt(color_uv(vs)[i].angle, nan)>>]

\* the samples span no triangle: every three of them are collinear
SpanNoTriangle(cs) ==
    \A i, j, k \in DOMAIN cs :
        (cs[j][1] - cs[i][1]) * (cs[k][2] - cs[i][2])
            = (cs[k][1] - cs[i][1]) * (cs[j][2] - cs[i][2])

\* the sampled codes that are cells of the grid
SampledCells(hd, cs) ==
    {cs[i] : i \in DOMAIN cs} \cap ((0..(Resolution(hd) - 1)) \X (0..(Resolution(hd) - 1)))

\* tables that hold an arbitrary vertex at every sampled cell
MisalignedTables(hd, cs) == [SampledCells(hd, cs) -> DOMAIN cs]

\* the tables griddata can return, at the sampled cells: each holds the
\* vertex of a sample with that code
interpolate(hd, cs) ==
    {t \in [SampledCells(hd, cs) -> DOMAIN cs] : \A c \in SampledCells(hd, cs) : cs[t[c]] = c}

\* the engine is not used while the codec runs
EngineIdle ==
    /\ clasification = [p \in Pixels |-> background_id]
    /\ probabilities = [p \in Pixels |-> softmax(background_id)]
    /\ most_frequent_class = Unset
    /\ output = <<>>
    /\ pc = "idle"
    /\ converged = "unset"
    /\ raised_by = ""
    /\ iterations = 0
    /\ solver_calls = 0
    /\ solver_input = <<>>
    /\ inlier_log = <<>>

\* a handler with one loaded model: distinct vertices, listed in the order
\* of PointKey
CodecInit ==
    /\ handler \in {"dpod", "linemod"}
    /\ vertices \in VertexLists(NumVertices)
    /\ colors = <<>>
    /\ table = <<>>
    /\ codec_pc = "loaded"
    /\ codec_error = ""
    /\ query = 0
    /\ looked_up = 0
    /\ EngineIdle
    /\ RenderIdle
    /\ FaceIdle

\* get_color_to_3dpoints_arrays, first half: the integer code of every vertex
ColorVertices ==
    /\ codec_pc = "loaded"
    /\ \E nan \in NanCast : colors' = VertexColors(handler, vertices, nan)
    /\ codec_pc' = "colored"
    /\ UNCHANGED <<engine_vars, render_vars, face_vars, handler, vertices, table, codec_error, query, looked_up>>

\* get_color_to_3dpoints_arrays, second half: griddata over the codes
Interpolate ==
    /\ codec_pc = "colored"
    /\ ~SpanNoTriangle(colors)
    /\ table' \in interpolate(handler, colors)
    /\ codec_pc' = "built"
    /\ UNCHANGED <<engine_vars, render_vars, face_vars, handler, vertices, colors, codec_error, query, looked_up>>

\* get_color_to_3dpoints_arrays, second half: the triangulation fails
InterpolateFails ==
    /\ codec_pc = "colored"
    /\ SpanNoTriangle(colors)
    /\ codec_pc' = "raised"
    /\ codec_error' = "QhullError"
    /\ UNCHANGED <<engine_vars, render_vars, face_vars, handler, vertices, colors, table, query, looked_up>>

\* color_to_3dpoints[code of vertex i]: the cell exists
Lookup(i) ==
    /\ codec_pc = "built"
    /\ colors[i] \in DOMAIN table
    /\ query' = i
    /\ looked_up' = table[colors[i]]
    /\ codec_pc' = "queried"
    /\ UNCHANGED <<engine_vars, render_vars, face_vars, handler, vertices, colors, table, codec_error>>

\* color_to_3dpoints[code of vertex i]: the code is no cell of the grid
LookupOutOfRange(i) ==
    /\ codec_pc = "built"
    /\ colors[i] \notin DOMAIN table
    /\ query' = i
    /\ codec_pc' = "raised"
    /\ codec_error' = "IndexError"
    /\ UNCHANGED <<engine_vars, render_vars, face_vars, handler, vertices, colors, table, looked_up>>

CodecNext ==
    \/ ColorVertices
    \/ Interpolate
    \/ InterpolateFails
    \/ \E i \in VertexIds : Lookup(i)
    \/ \E i \in VertexIds : LookupOutOfRange(i)

CodecSpec == CodecInit /\ [][CodecNext]_vars

\* ------------------------------------------------------- codec claims
\* the model has a vertical and an angular extent
NonDegenerate == HeightExtent(vertices) > 0 /\ AngleExtent(vertices) > 0

Coded == codec_pc \in {"colored", "built", "queried"}

\* C8: for every vertex of a non-degenerate model both codes lie in [0, R),
\* R being the side of the model's lookup table; as stated by the claim.
C8_CodesIndexTheTable ==
    (Coded /\ NonDegenerate) =>
        \A i \in DOMAIN colors :
            /\ colors[i][1] \in 0..(Resolution(handler) - 1)
            /\ colors[i][2] \in 0..(Resolution(handler) - 1)

\* C9: building the table of a model whose vertices all have the same
\* height ends in a DegenerateModel error, before any code or table is
\* derived from the undefined normalisation; as stated by the claim.
C9_DegenerateModelRaises ==
    (HeightExtent(vertices) = 0 /\ codec_pc # "loaded") =>
        (codec_pc = "raised" /\ codec_error = "DegenerateModel")

\* two model points are within the round-trip tolerance of each other:
\* distinct points of the model lie a whole unit apart, so only a point
\* itself is
Close(u, v) == u = v

Faces == 1..NumFaces
RasterPixels == 1..RasterSize

\* the z of the three vertices of a face, up to their order in the face
DepthTriples ==
    {t \in [1..3 -> 1..MaxDepth] : t[1] <= t[2] /\ t[2] <= t[3]}

\* z after transform_points: linemod multiplies by diag([1, -1, -1])
transform_points(hd, z) == IF hd = "linemod" THEN -z ELSE z

\* the permutations of the faces
FacePermutations ==
    {f \in [Faces -> Faces] : \A i, j \in Faces : i # j => f[i] # f[j]}

\* orders that put the faces by increasing depth
argsort_ascending(depth) ==
    {f \in FacePermutations :
        \A i, j \in Faces : i < j => depth[f[i]] <= depth[f[j]]}

\* np.argsort(-depth): every order np.argsort can give, the key -depth
\* does not decrease along it (equal keys come in either order)
argsort_negated(depth) ==
    {f \in FacePermutations :
        \A i, j \in Faces : i < j => (-depth[f[i]]) <= (-depth[f[j]])}

\* a handler about to draw a model at a pose
RenderInit ==
    /\ handler \in {"dpod", "linemod"}
    /\ \E m \in [Faces -> DepthTriples] :
        world_z = [f \in Faces |->
                     [k \in 1..3 |-> IF handler = "linemod" THEN -m[f][k] ELSE m[f][k]]]
    /\ face_cover \in [Faces -> SUBSET RasterPixels]
    /\ render_pc = "posed"
    /\ mid_depth = <<>>
    /\ face_ordering = <<>>
    /\ triangles = [f \in Faces |-> f]
    /\ face_colors = [f \in Faces |-> f]
    /\ raster = [p \in RasterPixels |-> 0]
    /\ painted = 0
    /\ vertices = <<>>
    /\ colors = <<>>
    /\ table = <<>>
    /\ codec_pc = "idle"
    /\ codec_error = ""
    /\ query = 0
    /\ looked_up = 0
    /\ EngineIdle
    /\ FaceIdle

\* transform the vertices and take the mid-point of every face
TransformFaces ==
    /\ render_pc = "posed"
    /\ mid_depth' = [f \in Faces |->
                       transform_points(handler, world_z[f][1])
                       + transform_points(handler, world_z[f][2])
                       + transform_points(handler, world_z[f][3])]
    /\ render_pc' = "transformed"
    /\ UNCHANGED <<engine_vars, codec_vars, face_vars, world_z, face_cover, face_ordering,
                   triangles, face_colors, raster, painted>>

\* face_ordering = np.argsort(-mid[:, 2]); faces and colours follow it
SortFaces ==
    /\ render_pc = "transformed"
    /\ \E order \in argsort_negated(mid_depth) :
        /\ face_ordering' = order
        /\ triangles' = [n \in Faces |-> triangles[order[n]]]
        /\ face_colors' = [n \in Faces |-> face_colors[order[n]]]
    /\ render_pc' = "sorted"
    /\ UNCHANGED <<engine_vars, codec_vars, face_vars, world_z, face_cover, mid_depth,
                   raster, painted>>

\* the next cv2.fillConvexPoly: the triangle overwrites the pixels it fills
PaintFace ==
    /\ render_pc = "sorted"
    /\ painted < NumFaces
    /\ LET n == painted + 1 IN
        raster' = [p \in RasterPixels |->
                     IF p \in face_cover[triangles[n]] THEN face_colors[n] ELSE raster[p]]
    /\ painted' = painted + 1
    /\ render_pc' = IF painted + 1 = NumFaces THEN "done" ELSE "sorted"
    /\ UNCHANGED <<engine_vars, codec_vars, face_vars, world_z, face_cover, mid_depth,
                   face_ordering, triangles, face_colors>>

RenderNext ==
    \/ TransformFaces
    \/ SortFaces
    \/ PaintFace

RenderSpec == RenderInit /\ [][RenderNext]_vars

\* ------------------------------------------------------ renderer claim
\* the faces whose projected triangle fills pixel p
Covering(p) == {f \in Faces : p \in face_cover[f]}

\* C11: faces are painted by decreasing mid-point depth in camera space,
\* each with its own colour: of two painted faces the one with the smaller
\* mid-point depth is painted later, and when all are painted a covered
\* pixel shows the colour of a covering face that no covering face is
\* nearer than, an uncovered pixel is untouched.
C11_FarthestFirst ==
    /\ render_pc \in {"sorted", "done"} =>
        /\ \A i, j \in 1..painted :
            mid_depth[triangles[i]] < mid_depth[triangles[j]] => j < i
        /\ \A n \in Faces : face_colors[n] = triangles[n]
    /\ render_pc = "done" =>
        \A p \in RasterPixels :
            IF Covering(p) = {} THEN raster[p] = 0
            ELSE /\ raster[p] \in Covering(p)
                 /\ \A g \in Covering(p) : mid_depth[raster[p]] <= mid_depth[g]

\* C11 witness: all faces are painted, a pixel is covered by two faces of
\* different depth of which the nearer comes first in the model's face
\* list, and the pixel shows the nearer one
C11_Witness ==
    /\ render_pc = "done"
    /\ \E p \in RasterPixels : \E f, g \in Covering(p) :
        /\ f < g
        /\ mid_depth[f] < mid_depth[g]
        /\ raster[p] = f

\* ==================================================================
\* Face colours: the codes the renderer paints the faces with
\*
\* A face is a triple of vertex indices.  The faces modelled lie in one
\* plane through the model's axis (each vertex has the angle of the first
\* or the opposite one) with the mid-point off the axis, so the angle of the
\* mid-point is one of the two, exactly.  Mid-points are kept in thirds of a
\* unit, the scale on which they are whole numbers; the codes are ratios of
\* differences and do not depend on the unit.  Arithmetic is exact.

\* the angle half a turn away, in the range of arctan2
Opposite(a) == IF a > 0 THEN a - HalfTurn ELSE a + HalfTurn

\* the radius of vertex k of face f along the direction of the face's first vertex
SignedRadius(vs, f, k) ==
    IF vs[f[k]].a = vs[f[1]].a THEN vs[f[k]].r ELSE -vs[f[k]].r

NetRadius(vs, f) ==
    SignedRadius(vs, f, 1) + SignedRadius(vs, f, 2) + SignedRadius(vs, f, 3)

AxialFaces(vs) ==
    {f \in (DOMAIN vs) \X (DOMAIN vs) \X (DOMAIN vs) :
        /\ f[1] < f[2] /\ f[2] < f[3]
        /\ \A k \in 2..3 : vs[f[k]].a \in {vs[f[1]].a, Opposite(vs[f[1]].a)}
        /\ NetRadius(vs, f) # 0}

\* the points in thirds of a unit
Thirds(vs) ==
    [i \in DOMAIN vs |-> [h |-> 3 * vs[i].h, a |-> vs[i].a, r |-> 3 * vs[i].r]]

\* (vertices[faces[:, 0]] + vertices[faces[:, 1]] + vertices[faces[:, 2]]) / 3
get_faces_midpoints(vs, fs) ==
    [n \in DOMAIN fs |->
        [h |-> vs[fs[n][1]].h + vs[fs[n][2]].h + vs[fs[n][3]].h,
         a |-> IF NetRadius(vs, fs[n]) > 0 THEN vs[fs[n][1]].a
               ELSE Opposite(vs[fs[n][1]].a),
         r |-> IF NetRadius(vs, fs[n]) > 0 THEN NetRadius(vs, fs[n])
               ELSE -NetRadius(vs, fs[n])]]

\* DPOD handler: color_points over the mid-points alone
get_model_face_to_color_array(mids, nan) == color_points(mids, nan)

\* linemod handler: the height of a mid-point against the extent of the
\* vertices, its angle against the full turn
get_faces_uv_colors(vs, mids) ==
    [n \in DOMAIN mids |->
        [height |-> [num |-> mids[n].h - 3 * MinOf(HeightsOf(vs)),
                     den |-> 3 * HeightExtent(vs)],
         angle |-> [num |-> mids[n].a + HalfTurn, den |-> 2 * HalfTurn]]]

\* the integer codes the renderer fills the faces with
FaceColors(hd, vs, mids, nan) ==
    IF hd = "dpod" THEN get_model_face_to_color_array(mids, nan)
    ELSE [n \in DOMAIN mids |->
            <<ScaleToInt(get_faces_uv_colors(vs, mids)[n].height, nan),
              ScaleToInt(get_faces_uv_colors(vs, mids)[n].angle, nan)>>]

\* a handler with one loaded model that has faces
FaceInit ==
    /\ handler \in {"dpod", "linemod"}
    /\ vertices \in VertexLists(NumVertices)
    /\ faces \in [Faces -> AxialFaces(vertices)]
    /\ faces_mid_points = <<>>
    /\ face_to_color = <<>>
    /\ face_pc = "loaded"
    /\ colors = <<>>
    /\ table = <<>>
    /\ codec_pc = "loaded"
    /\ codec_error = ""
    /\ query = 0
    /\ looked_up = 0
    /\ EngineIdle
    /\ RenderIdle

\* get_faces_midpoints / get_model_faces_midpoints
GetFacesMidpoints ==
    /\ face_pc = "loaded"
    /\ faces_mid_points' = get_faces_midpoints(vertices, faces)
    /\ face_pc' = "midpoints"
    /\ UNCHANGED <<engine_vars, codec_vars, render_vars, faces, face_to_color>>

\* get_model_face_to_color_array, resp. get_faces_uv_colors and the cast of
\* draw_color_mask
ColorFaces ==
    /\ face_pc = "midpoints"
    /\ \E nan \in NanCast :
        face_to_color' = FaceColors(handler, vertices, faces_mid_points, nan)
    /\ face_pc' = "colored"
    /\ UNCHANGED <<engine_vars, codec_vars, render_vars, faces, faces_mid_points>>

FaceNext ==
    \/ GetFacesMidpoints
    \/ ColorFaces
    \/ ColorVertices

FaceSpec == FaceInit /\ [][FaceNext]_vars

\* the codes of the vertices with the point pt encoded in the same call
CodesWith(pt, nan) == VertexColors(handler, Append(Thirds(vertices), pt), nan)

\* C13: on a model with a height and an angle extent, the code a face
\* mid-point is painted with is the code the point gets when it is encoded
\* together with the vertices, and adding the point to that call changes no
\* vertex's code; as stated by the claim.
C13_FaceCodeIsVertexCode ==
    (face_pc = "colored" /\ NonDegenerate) =>
        \A n \in DOMAIN faces : \A nan \in NanCast :
            /\ face_to_color[n] = CodesWith(faces_mid_points[n], nan)[NumVertices + 1]
            /\ codec_pc = "colored" =>
                \A i \in DOMAIN vertices :
                    CodesWith(faces_mid_points[n], nan)[i] = colors[i]

====
